---- MODULE Spec2Model ----
(***************************************************************************)
(* A model of the adwall gate (zaorinu-test/adwall).                       *)
(*                                                                         *)
(*   Spec      the token gate, src/client/adwall.js lines 319-522, with    *)
(*             its rate limiter, token verifier, credential store and      *)
(*             background revalidation timer.                              *)
(*   SpecCode  the code-based gate, src/unnamed/part_000 lines 141-299.    *)
(*   SpecKey   the credential store alone: hasValidKey applied to key      *)
(*             files that are written, tampered with, copied and removed.  *)
(*                                                                         *)
(* Time is Date.now() in milliseconds.  An exception that no try/catch of  *)
(* the source catches ends the host process (proc = "crashed").            *)
(***************************************************************************)
EXTENDS Integers, Sequences, FiniteSets, Bags, TLC

VARIABLES
  now,                \* Date.now()
  cfg,                \* the config object handed to adwall()
  keyFile,            \* content of the key file on disk
  encryptions,        \* number of encrypt() calls so far: each draws a fresh iv
  proc,               \* host process: "idle" (not running) | "up" | "crashed"
  server,             \* http server of the gate: "none" | "binding" | "listening" | "closed"
  session,            \* the entry of the sessions map created by the gate invocation
  validationAttempts, \* the rate-limit ledger: identity -> timestamps
  pending,            \* /validate requests whose token verification is in flight
  promise,            \* the promise returned by the latest adwall() call
  timers,             \* due times of the revalidation intervals that were started
  response,           \* the HTTP response written by the last step (NoResponse: none)
  gateWrites,         \* credential writes of the current gate invocation
  keyCheck,           \* what the latest direct call of hasValidKey returned (SpecKey)
  rateLimit,          \* what the latest direct call of checkIPRateLimit returned (SpecRate)
  verdict             \* the latest direct call of validateWorkinkToken (SpecVerify)

vars == <<now, cfg, keyFile, encryptions, proc, server, session, validationAttempts,
          pending, promise, timers, response, gateWrites, keyCheck, rateLimit, verdict>>

\* the outcomes of the direct calls of the rate limiter and of the token verifier
direct == <<rateLimit, verdict>>

----------------------------------------------------------------------------
(* Bounds of the model *)

MaxWrites == 2
MaxPending == 2

----------------------------------------------------------------------------
(* Program constants *)

minimumDelay == 20000
ratelimitMs == 20000
revalidationInterval == 420000
TokenDefaultMaxAge == 86400000
CodeDefaultMinDelay == 15000
CodeDefaultSessionTimeout == 300000

\* An optional config option: given with a value, or left out by the caller.
Given(v) == [given |-> TRUE, v |-> v]
LeftOut == [given |-> FALSE, v |-> 0]
\* destructuring with a default: `name = dflt` in `const { ... } = config`
OrDefault(opt, dflt) == IF opt.given THEN opt.v ELSE dflt

----------------------------------------------------------------------------
(* Crypto and hash utilities *)

\* Strings are sequences of characters, so that concatenation is concatenation.
ThisMachine  == [hostname |-> <<"h", "a">>, platform |-> <<"l">>, arch |-> <<"x">>, username |-> <<"u">>]
OtherMachine == [hostname |-> <<"h", "b">>, platform |-> <<"l">>, arch |-> <<"x">>, username |-> <<"u">>]
\* a different fingerprint whose concatenation is the same string
AliasMachine == [hostname |-> <<"h">>, platform |-> <<"a", "l">>, arch |-> <<"x">>, username |-> <<"u">>]
Machines == {ThisMachine, OtherMachine, AliasMachine}

\* sha256 is modelled as injective: a digest is represented by its preimage.
machineKey(m) == m.hostname \o m.platform \o m.arch \o m.username

\* A decrypted payload: the JSON value null (reading a property of it throws a
\* TypeError), or an object with a `valid` flag and a numeric `at`.
NotAnObject == [isObj |-> FALSE, valid |-> FALSE, at |-> 0]
Credential(t) == [isObj |-> TRUE, valid |-> TRUE, at |-> t]

\* AES-256-GCM, symbolically: the ciphertext is (key, iv, plaintext) and possibly a
\* changed byte; the tag authenticates (key, iv, ciphertext).
GcmTag(k, iv, ct) == [k |-> k, iv |-> iv, ct |-> ct, flip |-> FALSE]

encrypt(obj, m, iv) ==
  LET ct == [k |-> machineKey(m), iv |-> iv, p |-> obj, flip |-> FALSE]
  IN  [iv |-> iv, tag |-> GcmTag(machineKey(m), iv, ct), data |-> ct]

\* decipher.final() throws unless the tag verifies; JSON.parse throws on a garbled
\* plaintext.  Result: [threw, val].
decryptNoAuth(payload, m) ==
  IF payload.data.k = machineKey(m) /\ payload.data.iv = payload.iv /\ ~payload.data.flip
    THEN [threw |-> FALSE, val |-> payload.data.p]
    ELSE [threw |-> TRUE, val |-> NotAnObject]

decrypt(payload, m) ==
  IF payload.tag # GcmTag(machineKey(m), payload.iv, payload.data)
    THEN [threw |-> TRUE, val |-> NotAnObject]
    ELSE IF payload.data.k = machineKey(m) /\ payload.data.iv = payload.iv /\ ~payload.data.flip
      THEN [threw |-> FALSE, val |-> payload.data.p]
      ELSE [threw |-> TRUE, val |-> NotAnObject]

----------------------------------------------------------------------------
(* Credential store *)

\* File contents.  kind: "absent" (no file), "unreadable" (exists, read fails),
\* "garbage" (not JSON), "json" (JSON, but no {iv, tag, data} object), "blob".
BlankBlob == encrypt(NotAnObject, ThisMachine, 0)
NoFile == [kind |-> "absent", blob |-> BlankBlob]
Unreadable == [kind |-> "unreadable", blob |-> BlankBlob]
Garbage == [kind |-> "garbage", blob |-> BlankBlob]
OtherJson == [kind |-> "json", blob |-> BlankBlob]
BlobFile(b) == [kind |-> "blob", blob |-> b]

existsSync(file) == file.kind # "absent"

\* JSON.parse(fs.readFileSync(file, "utf8")) followed by decrypt(raw)
readAndDecrypt(file, m) ==
  IF file.kind = "blob" THEN decrypt(file.blob, m)
  ELSE [threw |-> TRUE, val |-> NotAnObject]

\* the body of hasValidKey with its try/catch removed: what a throw would let out
hasValidKeyNoCatch(file, maxAge, t, m) ==
  IF ~existsSync(file) THEN [threw |-> FALSE, value |-> FALSE]
  ELSE LET d == readAndDecrypt(file, m) IN
    IF d.threw \/ ~d.val.isObj THEN [threw |-> TRUE, value |-> FALSE]
    ELSE IF ~d.val.valid THEN [threw |-> FALSE, value |-> FALSE]
    ELSE IF t - d.val.at > maxAge THEN [threw |-> FALSE, value |-> FALSE]
    ELSE [threw |-> FALSE, value |-> TRUE]

\* the age test made strict: a credential of age exactly maxAge counts as expired
hasValidKeyStrictAge(file, maxAge, t, m) ==
  IF ~existsSync(file) THEN [threw |-> FALSE, value |-> FALSE]
  ELSE LET d == readAndDecrypt(file, m) IN
    IF d.threw \/ ~d.val.isObj THEN [threw |-> FALSE, value |-> FALSE]
    ELSE IF ~d.val.valid THEN [threw |-> FALSE, value |-> FALSE]
    ELSE IF t - d.val.at >= maxAge THEN [threw |-> FALSE, value |-> FALSE]
    ELSE [threw |-> FALSE, value |-> TRUE]

\* the body of hasValidKey without the age test
hasValidKeyNoAge(file, maxAge, t, m) ==
  IF ~existsSync(file) THEN [threw |-> FALSE, value |-> FALSE]
  ELSE LET d == readAndDecrypt(file, m) IN
    IF d.threw \/ ~d.val.isObj THEN [threw |-> FALSE, value |-> FALSE]
    ELSE IF ~d.val.valid THEN [threw |-> FALSE, value |-> FALSE]
    ELSE [threw |-> FALSE, value |-> TRUE]

\* hasValidKey(file, maxAge) at time t on machine m.  Result: [threw, value].
hasValidKey(file, maxAge, t, m) ==
  IF ~existsSync(file) THEN [threw |-> FALSE, value |-> FALSE]
  ELSE LET d == readAndDecrypt(file, m) IN
    IF d.threw \/ ~d.val.isObj THEN [threw |-> FALSE, value |-> FALSE]   \* catch
    ELSE IF ~d.val.valid THEN [threw |-> FALSE, value |-> FALSE]
    ELSE IF t - d.val.at > maxAge THEN [threw |-> FALSE, value |-> FALSE]
    ELSE [threw |-> FALSE, value |-> TRUE]

\* the write without encrypt: JSON.stringify({ valid: true, at }) goes to the file
writtenKeyPlain(at, maxAge, iv) == OtherJson

\* fs.writeFileSync(keyFile, JSON.stringify(encrypt({ valid: true, at }), null, 2))
writtenKey(at, maxAge, iv) == BlobFile(encrypt(Credential(at), ThisMachine, iv))

----------------------------------------------------------------------------
(* Rate limiter *)

Identities == {"ipA", "ipB"}

RECURSIVE SeqMin(_)
SeqMin(s) == IF Len(s) = 1 THEN s[1]
             ELSE LET m == SeqMin(Tail(s)) IN IF s[1] < m THEN s[1] ELSE m

\* the filter keeping a timestamp that is exactly one window old
recentAttemptsInclusive(attempts, t) == SelectSeq(attempts, LAMBDA ts : ts >= t - ratelimitMs)

\* attempts.filter(ts => ts > now - ratelimitMs)
recentAttempts(attempts, t) == SelectSeq(attempts, LAMBDA ts : ts > t - ratelimitMs)

\* checkIPRateLimit(ip) at time t: the answer, and the ledger it leaves behind
checkIPRateLimit(ledger, ip, t) ==
  LET recent == recentAttempts(ledger[ip], t) IN
  [allowed |-> Len(recent) < 1,
   nextRetryTime |-> IF Len(recent) >= 1 THEN SeqMin(recent) + ratelimitMs ELSE 0,
   ledger |-> [ledger EXCEPT ![ip] = recent]]

recordValidation(ledger, ip, t) == [ledger EXCEPT ![ip] = Append(@, t)]

----------------------------------------------------------------------------
(* External token verifier *)

\* What https.get yields: a transport error, or a body that is JSON or not.  A JSON
\* body is an object whose `valid` is "absent", "false" or "true" and which may have
\* `info`, with `expiresAfter` (a number, or left out) and `byIp` ("" = none).
ApiResponse(transport, json, valid, hasInfo, expiresAfter, byIp) ==
  [transport |-> transport, json |-> json, valid |-> valid, hasInfo |-> hasInfo,
   expiresAfter |-> expiresAfter, byIp |-> byIp]

ApiResponses(t) ==
  { ApiResponse("error", FALSE, "absent", FALSE, LeftOut, ""),
    ApiResponse("ok", FALSE, "absent", FALSE, LeftOut, ""),
    ApiResponse("ok", TRUE, "false", FALSE, LeftOut, ""),
    ApiResponse("ok", TRUE, "true", FALSE, LeftOut, ""),
    ApiResponse("ok", TRUE, "true", TRUE, Given(t - 1), ""),
    ApiResponse("ok", TRUE, "true", TRUE, Given(t), "ipB"),
    ApiResponse("ok", TRUE, "true", TRUE, Given(t + 30000), ""),
    ApiResponse("ok", TRUE, "true", TRUE, Given(t + 30000), "ipB") }

\* the verifier with step 3 rejecting instead of logging
validateWorkinkTokenIpBound(resp, userIp, t) ==
  IF resp.transport = "error" THEN [valid |-> FALSE, error |-> "API error"]
  ELSE IF ~resp.json THEN [valid |-> FALSE, error |-> "Validation error"]
  ELSE IF resp.valid # "true" THEN [valid |-> FALSE, error |-> "Invalid token"]
  ELSE IF ~resp.hasInfo THEN [valid |-> FALSE, error |-> "Validation error"]
  ELSE IF resp.expiresAfter.given /\ t > resp.expiresAfter.v
    THEN [valid |-> FALSE, error |-> "Token expired"]
  ELSE IF resp.byIp # "" /\ resp.byIp # userIp THEN [valid |-> FALSE, error |-> "IP mismatch"]
  ELSE [valid |-> TRUE, error |-> ""]

\* validateWorkinkToken(token, userIp) resolved with the API response at time t.
\* `now > expiresAfter` is false when expiresAfter is undefined.
validateWorkinkToken(resp, userIp, t) ==
  IF resp.transport = "error" THEN [valid |-> FALSE, error |-> "API error"]
  ELSE IF ~resp.json THEN [valid |-> FALSE, error |-> "Validation error"]
  ELSE IF resp.valid # "true" THEN [valid |-> FALSE, error |-> "Invalid token"]
  ELSE IF ~resp.hasInfo THEN [valid |-> FALSE, error |-> "Validation error"]
  ELSE IF resp.expiresAfter.given /\ t > resp.expiresAfter.v
    THEN [valid |-> FALSE, error |-> "Token expired"]
  ELSE [valid |-> TRUE, error |-> ""]

----------------------------------------------------------------------------
(* Responses, sessions, promises *)

\* status 0: the step wrote no response.  info: the number the body states, if any.
NoResponse == [status |-> 0, body |-> "", info |-> 0]
Response(status, body, info) == [status |-> status, body |-> body, info |-> info]

NoSession == [startTime |-> 0, minTime |-> LeftOut, validated |-> FALSE]

\* gateWrites: how many credentials the gate invocation wrote, and for which identities
NoWrites == [n |-> 0, ips |-> {}]

\* no direct call of hasValidKey was made
NoCheck == [threw |-> FALSE, value |-> FALSE, made |-> FALSE]

\* no direct call of checkIPRateLimit, of validateWorkinkToken was made
NoRateLimit == [made |-> FALSE, ip |-> "", allowed |-> FALSE, nextRetryTime |-> 0]
NoResult ==
  [made |-> FALSE, resp |-> ApiResponse("error", FALSE, "absent", FALSE, LeftOut, ""),
   userIp |-> "", valid |-> FALSE, error |-> ""]

\* resolve(v): only the first resolution of a promise counts
resolve(p, v) == IF p = "pending" THEN v ELSE p

----------------------------------------------------------------------------
(* The token gate: adwall(config) of src/client/adwall.js, lines 319-522 *)

\* const { ..., maxAge = 1000 * 60 * 60 * 24 } = config
TokenMaxAge == OrDefault(cfg.maxAge, TokenDefaultMaxAge)

\* req.headers["x-forwarded-for"]?.split(",")[0] || req.connection.remoteAddress
userIpOf(xff, remote) == IF xff # "" THEN xff ELSE remote

\* if (hasValidKey(keyFile, maxAge)) { ... resolve({ valid: true, url: null }); return }
neverFastPath(file, maxAge, t) == FALSE
takesFastPath(file, maxAge, t) == hasValidKey(file, maxAge, t, ThisMachine).value

\* The synchronous part of the /validate handler: which branch a request takes.
validateDecisionNoDelay(hasToken, rlAllowed, elapsed) ==
  IF ~hasToken THEN "missing_token"
  ELSE IF ~rlAllowed THEN "rate_limited"
  ELSE "verify"

validateDecision(hasToken, rlAllowed, elapsed) ==
  IF ~hasToken THEN "missing_token"
  ELSE IF ~rlAllowed THEN "rate_limited"
  ELSE IF elapsed < minimumDelay THEN "too_early"
  ELSE "verify"

\* no process: nothing of the module state is left
ProcessGone ==
  /\ server' = "none"
  /\ session' = NoSession
  /\ validationAttempts' = [i \in Identities |-> <<>>]
  /\ pending' = EmptyBag
  /\ timers' = {}
  /\ gateWrites' = NoWrites

\* an uncaught exception ends the process
ProcessCrash ==
  /\ proc' = "crashed"
  /\ ProcessGone
  /\ UNCHANGED promise

\* The instants at which something happens: the boundary of the minimum delay, the end
\* of the rate-limit window after a success at that boundary, and the first run of a
\* revalidation timer started then.
TokenInstants ==
  {0, minimumDelay - 1, minimumDelay, minimumDelay + ratelimitMs,
   minimumDelay + revalidationInterval}

\* Time passes.
Advance(t) ==
  /\ t > now
  /\ now' = t
  /\ response' = NoResponse
  /\ UNCHANGED <<direct, keyCheck, cfg, keyFile, encryptions, proc, server, session, validationAttempts,
                 pending, promise, timers, gateWrites>>

\* the required string options of the token gate
RequiredOptions == {"key", "adwall", "adlink"}

\* the argument validation with the test of `time` forgotten
configErrorNoTime(c) ==
  IF "key" \notin c.has THEN "Missing: key"
  ELSE IF "adwall" \notin c.has THEN "Missing: adwall"
  ELSE IF "adlink" \notin c.has THEN "Missing: adlink"
  ELSE ""

\* Lines 320-332: the message of the Error that adwall(config) throws, "" if none.
\* `!config.time` also holds for a time of 0.
configError(c) ==
  IF "key" \notin c.has THEN "Missing: key"
  ELSE IF "adwall" \notin c.has THEN "Missing: adwall"
  ELSE IF "adlink" \notin c.has THEN "Missing: adlink"
  ELSE IF ~c.time.given \/ c.time.v = 0 THEN "Missing: time"
  ELSE ""

\* The application starts and calls adwall(config), lines 320-366: the Error thrown
\* for an incomplete config (the caller holds it in place of a promise), the fast
\* path, or a session and a server.
CallAdwall ==
  /\ proc = "idle"
  /\ proc' = "up"
  /\ response' = NoResponse
  /\ UNCHANGED <<direct, keyCheck, now, cfg, keyFile, encryptions, validationAttempts, pending, gateWrites>>
  /\ IF configError(cfg) # ""
       THEN /\ promise' = configError(cfg)
            /\ UNCHANGED <<server, session, timers>>
     ELSE IF takesFastPath(keyFile, TokenMaxAge, now)
       THEN /\ timers' = timers \cup {now + revalidationInterval}
            /\ promise' = "valid"
            /\ UNCHANGED <<server, session>>
       ELSE /\ session' = [startTime |-> now, minTime |-> cfg.time, validated |-> FALSE]
            /\ server' = "binding"
            /\ promise' = "pending"
            /\ UNCHANGED timers

\* server.listen(port, () => resolve({ valid: false, url: adwall })), lines 518-520
Listen ==
  /\ proc = "up"
  /\ server = "binding"
  /\ server' = "listening"
  /\ promise' = resolve(promise, "gate")
  /\ response' = NoResponse
  /\ UNCHANGED <<direct, keyCheck, now, cfg, keyFile, encryptions, proc, session, validationAttempts,
                 pending, timers, gateWrites>>

\* a server that still takes requests after server.close():
AcceptingAfterClose == proc = "up" /\ server \in {"listening", "closed"}

\* requests reach the handler of a listening server only
Accepting == proc = "up" /\ server = "listening"

\* /init on a server that handles one request at a time and waits for the verifier
HandleInitWhenIdle ==
  /\ Accepting
  /\ pending = EmptyBag
  /\ response' = Response(302, "redirect to adwall", 0)
  /\ UNCHANGED <<direct, keyCheck, now, cfg, keyFile, encryptions, proc, server, session, validationAttempts,
                 pending, promise, timers, gateWrites>>

\* GET /init, lines 379-386
HandleInit ==
  /\ Accepting
  /\ response' = Response(302, "redirect to adwall", 0)
  /\ UNCHANGED <<direct, keyCheck, now, cfg, keyFile, encryptions, proc, server, session, validationAttempts,
                 pending, promise, timers, gateWrites>>

\* /link with the test `sessions.has(sid)` left out
HandleLinkAnySid(sid) ==
  /\ Accepting
  /\ response' = IF sid = ""
                   THEN Response(400, "Invalid session", 0)
                   ELSE Response(302, "redirect to work.ink", 0)
  /\ UNCHANGED <<direct, keyCheck, now, cfg, keyFile, encryptions, proc, server, session, validationAttempts,
                 pending, promise, timers, gateWrites>>

\* GET /link, lines 391-406; sid: "" (missing) | "session" (the session's id) | "unknown"
HandleLink(sid) ==
  /\ Accepting
  /\ response' = IF sid # "session"
                   THEN Response(400, "Invalid session", 0)
                   ELSE Response(302, "redirect to work.ink", 0)
  /\ UNCHANGED <<direct, keyCheck, now, cfg, keyFile, encryptions, proc, server, session, validationAttempts,
                 pending, promise, timers, gateWrites>>

\* any other path, lines 514-515
HandleOther ==
  /\ Accepting
  /\ response' = Response(404, "Not found", 0)
  /\ UNCHANGED <<direct, keyCheck, now, cfg, keyFile, encryptions, proc, server, session, validationAttempts,
                 pending, promise, timers, gateWrites>>

\* GET /validate, lines 412-449: the checks made before the token is verified.
\* `debug` (lines 428 and 443) is bound nowhere in the module, so evaluating it in
\* the rate-limited branch and in the too-early branch throws a ReferenceError
\* inside the request listener, before any response is written.
\* A request passed on to the verifier is remembered with what held when it arrived.
HandleValidate(hasToken, xff, referer) ==
  LET ip == userIpOf(xff, "ipA")
      rl == checkIPRateLimit(validationAttempts, ip, now)
      elapsed == now - session.startTime
      d == validateDecision(hasToken, rl.allowed, elapsed)
  IN
  /\ Accepting
  /\ d = "verify" => BagCardinality(pending) < MaxPending
  /\ UNCHANGED <<direct, keyCheck, now, cfg, keyFile, encryptions>>
  /\ CASE d = "missing_token" ->
            /\ response' = Response(400, "Missing token", 0)
            /\ UNCHANGED <<proc, server, session, validationAttempts, pending, promise,
                           timers, gateWrites>>
       [] d \in {"rate_limited", "too_early"} ->
            /\ response' = NoResponse
            /\ ProcessCrash
       [] d = "verify" ->
            /\ validationAttempts' = rl.ledger
            /\ pending' = pending (+) SetToBag({[ip |-> ip, hasToken |-> hasToken,
                                                  rlAllowed |-> rl.allowed,
                                                  onTime |-> elapsed >= minimumDelay,
                                                  afterWrite |-> gateWrites.n > 0]})
            /\ response' = NoResponse
            /\ UNCHANGED <<proc, server, session, promise, timers, gateWrites>>

\* the continuation with recordValidation(userIp) moved above the test of result.valid
CompleteValidateRecordsFirst(req, resp) ==
  LET result == validateWorkinkToken(resp, req.ip, now) IN
  /\ proc = "up"
  /\ BagIn(req, pending)
  /\ result.valid => encryptions < MaxWrites
  /\ pending' = pending (-) SetToBag({req})
  /\ validationAttempts' = recordValidation(validationAttempts, req.ip, now)
  /\ UNCHANGED <<direct, keyCheck, now, cfg, proc, server, session>>
  /\ IF ~result.valid
       THEN /\ response' = Response(400, result.error, 0)
            /\ UNCHANGED <<keyFile, encryptions, promise, timers, gateWrites>>
       ELSE /\ encryptions' = encryptions + 1
            /\ keyFile' = writtenKey(now, TokenMaxAge, encryptions + 1)
            /\ timers' = timers \cup {now + revalidationInterval}
            /\ promise' = resolve(promise, "valid")
            /\ gateWrites' = [n |-> gateWrites.n + 1, ips |-> gateWrites.ips \cup {req.ip}]
            /\ response' = Response(200, "valid", TokenMaxAge)

\* validateWorkinkToken(token, userIp).then(result => ...), lines 452-510
CompleteValidate(req, resp) ==
  LET result == validateWorkinkToken(resp, req.ip, now) IN
  /\ proc = "up"
  /\ BagIn(req, pending)
  /\ result.valid => encryptions < MaxWrites
  /\ pending' = pending (-) SetToBag({req})
  /\ UNCHANGED <<direct, keyCheck, now, cfg, proc, server, session>>
  /\ IF ~result.valid
       THEN /\ response' = Response(400, result.error, 0)
            /\ UNCHANGED <<keyFile, encryptions, validationAttempts, promise, timers,
                           gateWrites>>
       ELSE /\ validationAttempts' = recordValidation(validationAttempts, req.ip, now)
            /\ encryptions' = encryptions + 1
            /\ keyFile' = writtenKey(now, TokenMaxAge, encryptions + 1)
            /\ timers' = timers \cup {now + revalidationInterval}
            /\ promise' = resolve(promise, "valid")
            /\ gateWrites' = [n |-> gateWrites.n + 1, ips |-> gateWrites.ips \cup {req.ip}]
            /\ response' = Response(200, "valid", TokenMaxAge)

\* fs.unlinkSync(keyFile): throws when the file cannot be removed.  Result: [threw, file].
unlinkSync(file, ok) == [threw |-> ~ok, file |-> IF ok THEN NoFile ELSE file]

\* the deletion with its try/catch removed
tryUnlinkNoCatch(file, ok) == unlinkSync(file, ok)

\* try { fs.unlinkSync(keyFile) } catch {}, lines 207-209 and 215-217
tryUnlink(file, ok) == [threw |-> FALSE, file |-> unlinkSync(file, ok).file]

\* One run of the setInterval callback of startKeyRevalidation, lines 194-219: what it
\* leaves of the file, and whether an exception leaves the callback.
revalidate(file, maxAge, t, unlinkOk) ==
  IF ~existsSync(file) THEN [threw |-> FALSE, file |-> file]
  ELSE LET d == readAndDecrypt(file, ThisMachine) IN
    IF d.threw \/ ~d.val.isObj THEN tryUnlink(file, unlinkOk)            \* catch (e)
    ELSE IF ~d.val.valid THEN [threw |-> FALSE, file |-> file]
    ELSE IF t - d.val.at > maxAge THEN tryUnlink(file, unlinkOk)
    ELSE [threw |-> FALSE, file |-> file]

\* The timer fires.  An exception leaving the callback would be uncaught.
RevalidationTick(due, unlinkOk) ==
  LET r == revalidate(keyFile, TokenMaxAge, now, unlinkOk) IN
  /\ proc = "up"
  /\ due \in timers
  /\ now >= due
  /\ keyFile' = r.file
  /\ response' = NoResponse
  /\ UNCHANGED <<direct, keyCheck, now, cfg, encryptions>>
  /\ IF r.threw
       THEN ProcessCrash
       ELSE /\ timers' = (timers \ {due}) \cup {due + revalidationInterval}
            /\ UNCHANGED <<proc, server, session, validationAttempts, pending, promise,
                           gateWrites>>

\* key rotation by hand: somebody deletes the key file
RemoveKey ==
  /\ keyFile # NoFile
  /\ keyFile' = NoFile
  /\ response' = NoResponse
  /\ UNCHANGED <<direct, keyCheck, now, cfg, encryptions, proc, server, session, validationAttempts,
                 pending, promise, timers, gateWrites>>

\* The application exits, or its crashed process is cleared away.
Exit ==
  /\ proc \in {"up", "crashed"}
  /\ proc' = "idle"
  /\ promise' = "none"
  /\ ProcessGone
  /\ response' = NoResponse
  /\ UNCHANGED <<direct, keyCheck, now, cfg, keyFile, encryptions>>

\* has: the required string options that the config gives
Config(has, time, maxAge) ==
  [has |-> has, time |-> time, maxAge |-> maxAge, minDelay |-> LeftOut,
   sessionTimeout |-> LeftOut]

TokenConfig(time, maxAge) == Config(RequiredOptions, time, maxAge)

TokenConfigs ==
  {TokenConfig(Given(15000), LeftOut), TokenConfig(Given(30000), Given(ratelimitMs))}

\* configs with required options missing
BrokenConfigs ==
  {Config({}, LeftOut, LeftOut),
   Config({"adwall", "adlink"}, Given(15000), LeftOut),
   Config({"key"}, Given(15000), LeftOut),
   Config({"key", "adwall"}, LeftOut, LeftOut),
   Config(RequiredOptions, LeftOut, LeftOut),
   Config(RequiredOptions, Given(0), LeftOut)}

\* With a broken config the key file may be one that an earlier run left behind.
Init ==
  /\ now = 0
  /\ cfg \in TokenConfigs \cup BrokenConfigs
  /\ keyFile \in IF cfg \in BrokenConfigs
                   THEN {NoFile, writtenKey(0, TokenMaxAge, 0)}
                   ELSE {NoFile}
  /\ encryptions = 0
  /\ proc = "idle"
  /\ server = "none"
  /\ session = NoSession
  /\ validationAttempts = [i \in Identities |-> <<>>]
  /\ pending = EmptyBag
  /\ promise = "none"
  /\ timers = {}
  /\ response = NoResponse
  /\ gateWrites = NoWrites
  /\ keyCheck = NoCheck
  /\ rateLimit = NoRateLimit
  /\ verdict = NoResult

Next ==
  \/ \E t \in TokenInstants : Advance(t)
  \/ CallAdwall
  \/ Listen
  \/ HandleInit
  \/ \E sid \in {"", "session", "unknown"} : HandleLink(sid)
  \/ HandleOther
  \/ \E hasToken \in BOOLEAN, xff \in {"", "ipB"}, referer \in {"", "match", "other"} :
        HandleValidate(hasToken, xff, referer)
  \/ \E req \in BagToSet(pending), resp \in ApiResponses(now) : CompleteValidate(req, resp)
  \/ \E due \in timers, unlinkOk \in BOOLEAN : RevalidationTick(due, unlinkOk)
  \/ RemoveKey
  \/ Exit

Spec == Init /\ [][Next]_vars

----------------------------------------------------------------------------
(* Properties of the token gate, checked under Spec *)

\* the `at` a key file states, where it is an encrypted payload
IssuedAt(file) == file.blob.data.p.at

\* C1: the gate writes the credential file only while completing a /validate request
\* that carried a token, was allowed by the rate limiter, arrived at least the
\* minimum delay after the session start and whose token the verifier found valid;
\* no other step ever writes it.
C1_WriteOnlyOnAcceptedValidate ==
  [][(keyFile' # keyFile /\ existsSync(keyFile')) =>
       \E req \in BagToSet(pending), resp \in ApiResponses(now) :
          /\ CompleteValidate(req, resp)
          /\ req.hasToken /\ req.rlAllowed /\ req.onTime
          /\ validateWorkinkToken(resp, req.ip, now).valid
          /\ response'.status = 200]_vars

\* a /validate request was just completed with a credential write
C1_Witness ==
  /\ response.status = 200
  /\ gateWrites.n = 1
  /\ keyFile = BlobFile(encrypt(Credential(now), ThisMachine, encryptions))

\* C2: whenever hasValidKey is true when adwall(config) is called with a complete
\* config, the promise
\* resolves to {valid: true, url: null} and no server is created or bound.
C2_FastPath ==
  [][(/\ CallAdwall
      /\ configError(cfg) = ""
      /\ hasValidKey(keyFile, TokenMaxAge, now, ThisMachine).value) =>
       (promise' = "valid" /\ server' = "none")]_vars

\* adwall() was just called over a key younger than maxAge and took the fast path
C2_Witness ==
  /\ proc = "up" /\ promise = "valid" /\ server = "none"
  /\ timers = {now + revalidationInterval}
  /\ keyFile.kind = "blob"
  /\ now - IssuedAt(keyFile) < TokenMaxAge

\* C5: a successful /validate at time t leaves a credential issued at t, and every
\* later call of adwall() with the complete config over that unmodified file at a
\* time t' with
\* t' - t <= maxAge resolves to {valid: true, url: null} without a server.
C5_IssueThenReuse ==
  [][/\ response'.status = 200 =>
          keyFile' = BlobFile(encrypt(Credential(now), ThisMachine, keyFile'.blob.iv))
     /\ (/\ CallAdwall
         /\ configError(cfg) = ""
         /\ keyFile.kind = "blob" /\ now - IssuedAt(keyFile) <= TokenMaxAge) =>
          (promise' = "valid" /\ server' = "none")]_vars

\* adwall() was just called over a credential of age exactly maxAge, in a process
\* started after the one that wrote it, and took the fast path
C5_Witness ==
  /\ proc = "up" /\ promise = "valid" /\ server = "none"
  /\ timers = {now + revalidationInterval}
  /\ keyFile.kind = "blob"
  /\ encryptions >= 1
  /\ now - IssuedAt(keyFile) = TokenMaxAge

\* C6: once one /validate has succeeded, a /validate that arrives later in the same
\* gate invocation from the same identity, with a token the verifier finds valid, is
\* answered with an error and writes no second credential.
C6_SingleUseSequential ==
  [][\A req \in BagToSet(pending), resp \in ApiResponses(now) :
       (/\ CompleteValidate(req, resp)
        /\ req.afterWrite /\ req.ip \in gateWrites.ips
        /\ validateWorkinkToken(resp, req.ip, now).valid) =>
          (keyFile' = keyFile /\ response'.status >= 400)]_vars

\* C7: of two /validate requests in flight at the same time, at most one writes the
\* credential and records a rate-limit success: a request that passed the synchronous
\* checks before any write, and completes after another one has written, does neither.
C7_SingleUseConcurrent ==
  [][\A req \in BagToSet(pending), resp \in ApiResponses(now) :
       (CompleteValidate(req, resp) /\ ~req.afterWrite /\ gateWrites.n >= 1) =>
          (keyFile' = keyFile /\ validationAttempts' = validationAttempts)]_vars

\* C8: a /validate whose Referer is absent or of another origin is rejected with a
\* referrer error (403) on arrival and is never handed to the token verifier, even
\* when it carries a token, is allowed by the rate limiter and comes after the
\* minimum delay.
C8_ReferrerEnforced ==
  [][\A xff \in {"", "ipB"}, referer \in {"", "other"} :
       (/\ HandleValidate(TRUE, xff, referer)
        /\ checkIPRateLimit(validationAttempts, userIpOf(xff, "ipA"), now).allowed
        /\ now - session.startTime >= minimumDelay) =>
          (response'.status = 403 /\ pending' = pending)]_vars

\* C10: the minimum delay enforced by /validate is config.time: a /validate with a
\* token that the rate limiter allows takes the premature branch (which ends in the
\* ReferenceError) iff now - startTime < config.time.
C10_MinimumDelayIsConfigTime ==
  [][\A xff \in {"", "ipB"}, referer \in {"", "match", "other"} :
       (/\ HandleValidate(TRUE, xff, referer)
        /\ checkIPRateLimit(validationAttempts, userIpOf(xff, "ipA"), now).allowed) =>
          ((proc' = "crashed") <=> (now - session.startTime < session.minTime.v))]_vars

----------------------------------------------------------------------------
(* The credential store alone: SpecKey *)

ByteFields == {"iv", "tag", "data"}

\* One byte of a field of the stored {iv, tag, data} is changed; changing the same
\* byte back restores the field.
flipByte(b, field) ==
  IF field = "iv" THEN [b EXCEPT !.iv = -1 - @]
  ELSE IF field = "tag" THEN [b EXCEPT !.tag.flip = ~@]
  ELSE [b EXCEPT !.data.flip = ~@]

KeyInstants == {0, ratelimitMs, ratelimitMs + 1}

KeyConfigs ==
  {TokenConfig(Given(15000), Given(0)), TokenConfig(Given(15000), Given(ratelimitMs))}

\* payloads a key file from elsewhere may hold
KeyPayloads(t) == {NotAnObject, [isObj |-> TRUE, valid |-> FALSE, at |-> t], Credential(t)}

\* everything but the clock, the key file and the outcome of the check stays as it is
KeyFrame ==
  UNCHANGED <<direct, cfg, proc, server, session, validationAttempts, pending, promise, timers,
              response, gateWrites>>

\* the key file is written as the gates write it
StoreKey ==
  /\ encryptions < MaxWrites
  /\ encryptions' = encryptions + 1
  /\ keyFile' = writtenKey(now, TokenMaxAge, encryptions + 1)
  /\ keyCheck' = NoCheck
  /\ KeyFrame /\ UNCHANGED now

\* a key file encrypted elsewhere is put in place: one copied from another machine,
\* or one made by somebody who knows a machine's fingerprint
PlantKey(p, m) ==
  /\ encryptions < MaxWrites
  /\ encryptions' = encryptions + 1
  /\ keyFile' = BlobFile(encrypt(p, m, encryptions + 1))
  /\ keyCheck' = NoCheck
  /\ KeyFrame /\ UNCHANGED now

FlipByte(field) ==
  /\ keyFile.kind = "blob"
  /\ keyFile' = BlobFile(flipByte(keyFile.blob, field))
  /\ keyCheck' = NoCheck
  /\ KeyFrame /\ UNCHANGED <<now, encryptions>>

\* the file is overwritten with something else, or made unreadable
DamageKey(f) ==
  /\ keyFile # f
  /\ keyFile' = f
  /\ keyCheck' = NoCheck
  /\ KeyFrame /\ UNCHANGED <<now, encryptions>>

DeleteKey ==
  /\ existsSync(keyFile)
  /\ keyFile' = NoFile
  /\ keyCheck' = NoCheck
  /\ KeyFrame /\ UNCHANGED <<now, encryptions>>

KeyAdvance(t) ==
  /\ t > now
  /\ now' = t
  /\ keyCheck' = NoCheck
  /\ KeyFrame /\ UNCHANGED <<keyFile, encryptions>>

\* hasValidKey(keyFile, maxAge) is called
CheckKey ==
  /\ ~keyCheck.made
  /\ keyCheck' = LET r == hasValidKey(keyFile, TokenMaxAge, now, ThisMachine)
                 IN  [threw |-> r.threw, value |-> r.value, made |-> TRUE]
  /\ KeyFrame /\ UNCHANGED <<now, keyFile, encryptions>>

InitKey ==
  /\ now \in KeyInstants
  /\ cfg \in KeyConfigs
  /\ keyFile = NoFile
  /\ encryptions = 0
  /\ proc = "idle"
  /\ server = "none"
  /\ session = NoSession
  /\ validationAttempts = [i \in Identities |-> <<>>]
  /\ pending = EmptyBag
  /\ promise = "none"
  /\ timers = {}
  /\ response = NoResponse
  /\ gateWrites = NoWrites
  /\ keyCheck = NoCheck
  /\ rateLimit = NoRateLimit
  /\ verdict = NoResult

NextKey ==
  \/ StoreKey
  \/ \E p \in KeyPayloads(now), m \in Machines : PlantKey(p, m)
  \/ \E field \in ByteFields : FlipByte(field)
  \/ \E f \in {Unreadable, Garbage, OtherJson} : DamageKey(f)
  \/ DeleteKey
  \/ \E t \in KeyInstants : KeyAdvance(t)
  \/ CheckKey

SpecKey == InitKey /\ [][NextKey]_vars

\* The file is an {iv, tag, data} object that authenticates and decrypts under the
\* key of this machine.
Authentic(file) ==
  /\ file.kind = "blob"
  /\ file.blob = encrypt(file.blob.data.p, ThisMachine, file.blob.iv)

Accepted(file, maxAge, t) ==
  /\ Authentic(file)
  /\ file.blob.data.p.isObj
  /\ file.blob.data.p.valid
  /\ t - file.blob.data.p.at <= maxAge

\* an authentic key file in which one byte of iv, tag or data was changed
OneByteChanged(file) ==
  /\ file.kind = "blob"
  /\ \E field \in ByteFields : Authentic(BlobFile(flipByte(file.blob, field)))

\* why a key file is not a valid credential ("none": it is one)
KeyFailure(file, maxAge, t) ==
  IF file.kind = "absent" THEN "absent"
  ELSE IF file.kind = "unreadable" THEN "unreadable"
  ELSE IF file.kind = "garbage" THEN "malformed JSON"
  ELSE IF file.kind = "json" THEN "not an {iv, tag, data} object"
  ELSE IF ~Authentic(file) THEN "failed authentication"
  ELSE IF ~file.blob.data.p.isObj THEN "payload not an object"
  ELSE IF ~file.blob.data.p.valid THEN "valid flag false"
  ELSE IF t - file.blob.data.p.at > maxAge THEN "expired"
  ELSE "none"

C4_NeverThrows ==
  keyCheck.made =>
    /\ ~keyCheck.threw
    /\ KeyFailure(keyFile, TokenMaxAge, now) # "none" =>
          keyCheck = [threw |-> FALSE, value |-> FALSE, made |-> TRUE]

\* hasValidKey was called on a file whose authentic payload is not an object
C4_Witness ==
  /\ keyCheck.made
  /\ KeyFailure(keyFile, TokenMaxAge, now) = "payload not an object"
  /\ ~keyCheck.value

----------------------------------------------------------------------------
(* The code-based gate: adwall(config) of src/unnamed/part_000, lines 141-299 *)

\* maxAge = 1000 * 60 * 60 * 24 * 30 when left out; the configurations of the model
\* always give it
CodeMaxAge == cfg.maxAge.v
CodeMinDelay == OrDefault(cfg.minDelay, CodeDefaultMinDelay)
CodeSessionTimeout == OrDefault(cfg.sessionTimeout, CodeDefaultSessionTimeout)

\* The checks of the '/' handler, in their order (lines 230-266), with the delay test
\* made inclusive:
codeDecisionInclusive(referrerValid, elapsed, minDelay, sessionTimeout) ==
  IF ~referrerValid THEN "invalid_referrer"
  ELSE IF elapsed > sessionTimeout THEN "session_expired"
  ELSE IF elapsed <= minDelay THEN "minimum_delay_not_met"
  ELSE "answer"

\* with the referrer test left out:
codeDecisionNoReferrer(referrerValid, elapsed, minDelay, sessionTimeout) ==
  IF elapsed > sessionTimeout THEN "session_expired"
  ELSE IF elapsed < minDelay THEN "minimum_delay_not_met"
  ELSE "answer"

\* and as the source has them.
codeDecision(referrerValid, elapsed, minDelay, sessionTimeout) ==
  IF ~referrerValid THEN "invalid_referrer"
  ELSE IF elapsed > sessionTimeout THEN "session_expired"
  ELSE IF elapsed < minDelay THEN "minimum_delay_not_met"
  ELSE "answer"

\* lines 176-189: the fast path, or a session and a server
CodeCallAdwall ==
  /\ proc = "idle"
  /\ proc' = "up"
  /\ response' = NoResponse
  /\ UNCHANGED <<direct, keyCheck, now, cfg, keyFile, encryptions, validationAttempts, pending,
                 timers, gateWrites>>
  /\ IF hasValidKey(keyFile, CodeMaxAge, now, ThisMachine).value
       THEN /\ promise' = "valid"
            /\ UNCHANGED <<server, session>>
       ELSE /\ session' = [startTime |-> now, minTime |-> LeftOut, validated |-> FALSE]
            /\ server' = "binding"
            /\ promise' = "pending"

\* server.listen(port, () => resolve({ valid: false, url: adwallUrl })), lines 295-297
CodeListen ==
  /\ proc = "up"
  /\ server = "binding"
  /\ server' = "listening"
  /\ promise' = resolve(promise, "gate")
  /\ response' = NoResponse
  /\ UNCHANGED <<direct, keyCheck, now, cfg, keyFile, encryptions, proc, session,
                 validationAttempts, pending, timers, gateWrites>>

\* GET /init, lines 201-212: the body states expiresAt = Date.now() + sessionTimeout
CodeHandleInit ==
  /\ Accepting
  /\ response' = Response(200, "init", now + CodeSessionTimeout)
  /\ UNCHANGED <<direct, keyCheck, now, cfg, keyFile, encryptions, proc, server, session,
                 validationAttempts, pending, promise, timers, gateWrites>>

\* any other path, lines 288-290
CodeHandleOther ==
  /\ Accepting
  /\ response' = Response(404, "", 0)
  /\ UNCHANGED <<direct, keyCheck, now, cfg, keyFile, encryptions, proc, server, session,
                 validationAttempts, pending, promise, timers, gateWrites>>

\* GET / of a handler that gives the session up on a premature request as well:
CodeHandleFinalClosing(referer, v) ==
  LET elapsed == now - session.startTime
      d == codeDecision(referer = "match", elapsed, CodeMinDelay, CodeSessionTimeout)
  IN
  /\ Accepting
  /\ (referer # "malformed" /\ d = "answer" /\ v = "expected") => encryptions < MaxWrites
  /\ UNCHANGED <<direct, keyCheck, now, cfg, validationAttempts, pending, timers, gateWrites>>
  /\ IF referer = "malformed"
       THEN /\ response' = NoResponse
            /\ proc' = "crashed"
            /\ server' = "none"
            /\ session' = NoSession
            /\ UNCHANGED <<keyFile, encryptions, promise>>
     ELSE IF d \in {"invalid_referrer", "session_expired", "minimum_delay_not_met"}
       THEN /\ response' = IF d = "invalid_referrer"
                             THEN Response(403, "invalid_referrer", 0)
                           ELSE IF d = "session_expired"
                             THEN Response(408, "session_expired", CodeSessionTimeout)
                           ELSE Response(429, "minimum_delay_not_met", CodeMinDelay - elapsed)
            /\ server' = "closed"
            /\ promise' = resolve(promise, "invalid")
            /\ UNCHANGED <<keyFile, encryptions, proc, session>>
     ELSE /\ IF v = "expected"
               THEN /\ encryptions' = encryptions + 1
                    /\ keyFile' = writtenKey(now, CodeMaxAge, encryptions + 1)
                    /\ response' = Response(200, "valid: true", 0)
               ELSE /\ response' = Response(200, "valid: false", 0)
                    /\ UNCHANGED <<keyFile, encryptions>>
          /\ server' = "closed"
          /\ promise' = resolve(promise, IF v = "expected" THEN "valid" ELSE "invalid")
          /\ UNCHANGED <<proc, session>>

\* GET /, lines 217-286.  referer: "" (no header) | "match" (origin of adwallUrl) |
\* "other" (another origin) | "malformed" (no URL: new URL(referrer) throws inside the
\* request listener).  v: "" (no parameter) | "expected" (sha256(sessionId + sharedKey))
\* | "wrong".
CodeHandleFinal(referer, v) ==
  LET elapsed == now - session.startTime
      d == codeDecision(referer = "match", elapsed, CodeMinDelay, CodeSessionTimeout)
  IN
  /\ Accepting
  /\ (referer # "malformed" /\ d = "answer" /\ v = "expected") => encryptions < MaxWrites
  /\ UNCHANGED <<direct, keyCheck, now, cfg, validationAttempts, pending, timers, gateWrites>>
  /\ IF referer = "malformed"
       THEN /\ response' = NoResponse
            /\ proc' = "crashed"
            /\ server' = "none"
            /\ session' = NoSession
            /\ UNCHANGED <<keyFile, encryptions, promise>>
     ELSE IF d = "invalid_referrer"
       THEN /\ response' = Response(403, "invalid_referrer", 0)
            /\ server' = "closed"
            /\ promise' = resolve(promise, "invalid")
            /\ UNCHANGED <<keyFile, encryptions, proc, session>>
     ELSE IF d = "session_expired"
       THEN /\ response' = Response(408, "session_expired", CodeSessionTimeout)
            /\ server' = "closed"
            /\ promise' = resolve(promise, "invalid")
            /\ UNCHANGED <<keyFile, encryptions, proc, session>>
     ELSE IF d = "minimum_delay_not_met"
       THEN /\ response' = Response(429, "minimum_delay_not_met", CodeMinDelay - elapsed)
            /\ UNCHANGED <<keyFile, encryptions, proc, server, session, promise>>
     ELSE /\ IF v = "expected"
               THEN /\ encryptions' = encryptions + 1
                    /\ keyFile' = writtenKey(now, CodeMaxAge, encryptions + 1)
                    /\ response' = Response(200, "valid: true", 0)
               ELSE /\ response' = Response(200, "valid: false", 0)
                    /\ UNCHANGED <<keyFile, encryptions>>
          /\ server' = "closed"
          /\ promise' = resolve(promise, IF v = "expected" THEN "valid" ELSE "invalid")
          /\ UNCHANGED <<proc, session>>

CodeConfig(minDelay, sessionTimeout) ==
  [time |-> LeftOut, maxAge |-> Given(TokenDefaultMaxAge), minDelay |-> minDelay,
   sessionTimeout |-> sessionTimeout]

\* the defaults; a session that times out at the last instant of the minimum delay;
\* one that times out before it
CodeConfigs ==
  {CodeConfig(LeftOut, LeftOut),
   CodeConfig(LeftOut, Given(CodeDefaultMinDelay - 1)),
   CodeConfig(Given(CodeDefaultMinDelay), Given(CodeDefaultMinDelay - 2))}

CodeInstants ==
  {0, CodeDefaultMinDelay - 1, CodeDefaultMinDelay, CodeDefaultSessionTimeout,
   CodeDefaultSessionTimeout + 1}

InitCode ==
  /\ now = 0
  /\ cfg \in CodeConfigs
  /\ keyFile = NoFile
  /\ encryptions = 0
  /\ proc = "idle"
  /\ server = "none"
  /\ session = NoSession
  /\ validationAttempts = [i \in Identities |-> <<>>]
  /\ pending = EmptyBag
  /\ promise = "none"
  /\ timers = {}
  /\ response = NoResponse
  /\ gateWrites = NoWrites
  /\ keyCheck = NoCheck
  /\ rateLimit = NoRateLimit
  /\ verdict = NoResult

NextCode ==
  \/ \E t \in CodeInstants : Advance(t)
  \/ CodeCallAdwall
  \/ CodeListen
  \/ CodeHandleInit
  \/ \E referer \in {"", "match", "other", "malformed"}, v \in {"", "expected", "wrong"} :
        CodeHandleFinal(referer, v)
  \/ CodeHandleOther
  \/ RemoveKey
  \/ Exit

SpecCode == InitCode /\ [][NextCode]_vars

\* C9, as stated: the final request with matching referrer and correct code handled
\* at startTime + minDelay - 1 is rejected as minimum_delay_not_met with
\* remainingDelay = 1; handled at startTime + minDelay, and not after
\* startTime + sessionTimeout, it is accepted and writes the credential.
C9_DwellBoundaryAsStated ==
  [][CodeHandleFinal("match", "expected") =>
       /\ (now - session.startTime = CodeMinDelay - 1) =>
             (response' = Response(429, "minimum_delay_not_met", 1) /\ keyFile' = keyFile)
       /\ (/\ now - session.startTime = CodeMinDelay
           /\ now - session.startTime <= CodeSessionTimeout) =>
             /\ response' = Response(200, "valid: true", 0)
             /\ keyFile' = BlobFile(encrypt(Credential(now), ThisMachine, keyFile'.blob.iv))
    ]_vars

\* C9: the final request with matching referrer and correct code handled at
\* startTime + minDelay - 1, and not after startTime + sessionTimeout, is rejected as
\* minimum_delay_not_met with remainingDelay = 1; handled at startTime + minDelay, and
\* not after startTime + sessionTimeout, it is accepted and writes the credential.
C9_DwellBoundary ==
  [][CodeHandleFinal("match", "expected") =>
       /\ (/\ now - session.startTime = CodeMinDelay - 1
           /\ now - session.startTime <= CodeSessionTimeout) =>
             (response' = Response(429, "minimum_delay_not_met", 1) /\ keyFile' = keyFile)
       /\ (/\ now - session.startTime = CodeMinDelay
           /\ now - session.startTime <= CodeSessionTimeout) =>
             /\ response' = Response(200, "valid: true", 0)
             /\ keyFile' = BlobFile(encrypt(Credential(now), ThisMachine, keyFile'.blob.iv))
    ]_vars

\* the final request was just accepted at exactly startTime + minDelay
C9_Witness ==
  /\ response = Response(200, "valid: true", 0)
  /\ server = "closed"
  /\ now - session.startTime = CodeMinDelay
  /\ keyFile = BlobFile(encrypt(Credential(now), ThisMachine, encryptions))

----------------------------------------------------------------------------
(* The rate limiter alone: SpecRate *)

RateInstants ==
  {0, 1, ratelimitMs - 1, ratelimitMs, ratelimitMs + 1, 2 * ratelimitMs}

\* everything but the clock, the ledger and the outcome of the check stays as it is
RateFrame ==
  UNCHANGED <<cfg, keyFile, encryptions, proc, server, session, pending, promise, timers,
              response, gateWrites, keyCheck, verdict>>

\* recordValidation(ip) is called
RateRecord(ip) ==
  /\ Len(validationAttempts[ip]) < MaxWrites
  /\ validationAttempts' = recordValidation(validationAttempts, ip, now)
  /\ rateLimit' = NoRateLimit
  /\ RateFrame /\ UNCHANGED now

\* checkIPRateLimit(ip) is called
RateCheck(ip) ==
  LET rl == checkIPRateLimit(validationAttempts, ip, now) IN
  /\ validationAttempts' = rl.ledger
  /\ rateLimit' = [made |-> TRUE, ip |-> ip, allowed |-> rl.allowed,
                   nextRetryTime |-> rl.nextRetryTime]
  /\ RateFrame /\ UNCHANGED now

RateAdvance(t) ==
  /\ t > now
  /\ now' = t
  /\ rateLimit' = NoRateLimit
  /\ RateFrame /\ UNCHANGED validationAttempts

InitRate ==
  /\ now \in {0, 1}
  /\ cfg \in TokenConfigs
  /\ keyFile = NoFile
  /\ encryptions = 0
  /\ proc = "idle"
  /\ server = "none"
  /\ session = NoSession
  /\ validationAttempts = [i \in Identities |-> <<>>]
  /\ pending = EmptyBag
  /\ promise = "none"
  /\ timers = {}
  /\ response = NoResponse
  /\ gateWrites = NoWrites
  /\ keyCheck = NoCheck
  /\ rateLimit = NoRateLimit
  /\ verdict = NoResult

NextRate ==
  \/ \E ip \in Identities : RateRecord(ip)
  \/ \E ip \in Identities : RateCheck(ip)
  \/ \E t \in RateInstants : RateAdvance(t)

SpecRate == InitRate /\ [][NextRate]_vars

\* the timestamps of a ledger entry
Stamps(attempts) == {attempts[i] : i \in DOMAIN attempts}

\* C11: recordValidation(ip) at time t puts t in the ledger of ip; a later
\* checkIPRateLimit(ip) at t' answers allowed: false with nextRetryTime > t' when some
\* record of ip has t' - t < window, answers allowed: true when every record of ip has
\* t' - t >= window, and leaves in the ledger of ip only timestamps newer than
\* t' - window.
C11_RateWindow ==
  [][\A ip \in Identities :
       /\ RateRecord(ip) => validationAttempts'[ip] = Append(validationAttempts[ip], now)
       /\ RateCheck(ip) =>
            /\ (\E t \in Stamps(validationAttempts[ip]) : now - t < ratelimitMs) =>
                  (~rateLimit'.allowed /\ rateLimit'.nextRetryTime > now)
            /\ (\A t \in Stamps(validationAttempts[ip]) : now - t >= ratelimitMs) =>
                  rateLimit'.allowed
            /\ \A t \in Stamps(validationAttempts'[ip]) : t > now - ratelimitMs]_vars

\* checkIPRateLimit was just called inside the window of a record and refused
C11_Witness ==
  /\ rateLimit.made
  /\ ~rateLimit.allowed
  /\ rateLimit.nextRetryTime > now
  /\ validationAttempts[rateLimit.ip] # <<>>

----------------------------------------------------------------------------
(* Rate limiting, rejections and shutdown of the token gate, checked under Spec *)

\* "1 key per hour": the window that the comments and the 429 text of the gate state
OneHour == 3600000

\* C12: in every reachable state the ledger of every identity holds at most one
\* success timestamp inside any window-long interval, also when several requests of
\* the identity are verified concurrently.
C12_AtMostOnePerWindow ==
  \A ip \in Identities :
    \A i, j \in DOMAIN validationAttempts[ip] :
      i < j => validationAttempts[ip][j] - validationAttempts[ip][i] >= ratelimitMs

\* C13: a /validate refused by the rate limiter is answered 429 with the next retry
\* time, one that comes before the minimum delay is answered with the remaining wait,
\* and after either the server is still listening.
C13_RejectionsAnswered ==
  [][\A xff \in {"", "ipB"}, referer \in {"", "match", "other"} :
       HandleValidate(TRUE, xff, referer) =>
         LET rl == checkIPRateLimit(validationAttempts, userIpOf(xff, "ipA"), now)
             elapsed == now - session.startTime
         IN  /\ ~rl.allowed =>
                  /\ response'.status = 429 /\ response'.info = rl.nextRetryTime
                  /\ proc' = "up" /\ server' = "listening"
             /\ (rl.allowed /\ elapsed < minimumDelay) =>
                  /\ response'.status = 400 /\ response'.info = minimumDelay - elapsed
                  /\ proc' = "up" /\ server' = "listening"]_vars

\* C14: after a successful validation from an IP address at time t, every /validate
\* from that address before t + 1 hour is refused and issues no credential: it is not
\* handed to the token verifier.
C14_OneKeyPerHour ==
  [][\A xff \in {"", "ipB"}, referer \in {"", "match", "other"} :
       (/\ HandleValidate(TRUE, xff, referer)
        /\ \E t \in Stamps(validationAttempts[userIpOf(xff, "ipA")]) : now - t < OneHour) =>
          (BagCardinality(pending') <= BagCardinality(pending) /\ keyFile' = keyFile)]_vars

\* C15: after the first successful /validate of a gate invocation the server no
\* longer listens, so that no request is accepted on the port.
C15_ShutdownOnSuccess == gateWrites.n >= 1 => ~Accepting

\* C17: when adwall() found no valid key and started the gate, the value the caller
\* obtains from the promise is {valid: true, ...} exactly when a /validate succeeded.
C17_PromiseCarriesResult ==
  (proc = "up" /\ server # "none") => (promise = "valid" <=> gateWrites.n >= 1)

----------------------------------------------------------------------------
(* The token gate with the steps the program takes by itself: SpecLive *)

\* The listen callback runs once the port is bound, and a token verification that was
\* started completes.  Requests, the passing of time and the end of the process are
\* up to the environment.
SpecLive ==
  /\ Init /\ [][Next]_vars
  /\ WF_vars(Listen)
  /\ WF_vars(\E req \in BagToSet(pending), resp \in ApiResponses(now) :
                CompleteValidate(req, resp))

\* C16: once the server listens, it eventually stops listening, in every execution.
C16_BoundedListening == (server = "listening") ~> (server # "listening")

----------------------------------------------------------------------------
(* Argument validation of the token gate, checked under Spec *)

\* the options a config lacks, and the order in which adwall looks for them
Missing(c) == (RequiredOptions \ c.has) \cup (IF c.time.given THEN {} ELSE {"time"})
OptionOrder == <<"key", "adwall", "adlink", "time">>
FirstMissing(c) ==
  OptionOrder[CHOOSE i \in DOMAIN OptionOrder :
                /\ OptionOrder[i] \in Missing(c)
                /\ \A j \in 1..(i - 1) : OptionOrder[j] \notin Missing(c)]
MissingMessage ==
  [o \in {"key", "adwall", "adlink", "time"} |->
     IF o = "key" THEN "Missing: key"
     ELSE IF o = "adwall" THEN "Missing: adwall"
     ELSE IF o = "adlink" THEN "Missing: adlink"
     ELSE "Missing: time"]

\* C18: if any of key, adwall, adlink, time is missing, adwall throws an error naming
\* the first missing one, whatever the key file holds, and neither a server nor a
\* timer nor a session is created.
C18_ConfigErrorsFailFast ==
  [][(CallAdwall /\ Missing(cfg) # {}) =>
       /\ promise' = MissingMessage[FirstMissing(cfg)]
       /\ server' = "none" /\ timers' = {} /\ session' = NoSession]_vars

\* adwall() threw for a missing `time` although a valid key file was there
C18_Witness ==
  /\ proc = "up"
  /\ promise = "Missing: time"
  /\ server = "none" /\ timers = {}
  /\ hasValidKey(keyFile, TokenMaxAge, now, ThisMachine).value

----------------------------------------------------------------------------
(* The verifier alone: SpecVerify *)

VerifyInstants == {0, 1000, 30000, 31000}

\* what the API may answer at time t: also bodies without `valid`, without `info`,
\* and an `info` without `expiresAfter` or with a `byIp` of either identity
VerifyResponses(t) ==
  { ApiResponse("error", FALSE, "absent", FALSE, LeftOut, ""),
    ApiResponse("ok", FALSE, "absent", FALSE, LeftOut, "") }
  \cup { ApiResponse("ok", TRUE, v, FALSE, LeftOut, "") : v \in {"absent", "false", "true"} }
  \cup { ApiResponse("ok", TRUE, v, TRUE, e, ip) :
           v \in {"false", "true"},
           e \in {LeftOut, Given(t - 1), Given(t), Given(t + 1), Given(t + 30000)},
           ip \in Identities \cup {""} }

\* everything but the clock and the outcome of the call stays as it is
VerifyFrame ==
  UNCHANGED <<cfg, keyFile, encryptions, proc, server, session, validationAttempts,
              pending, promise, timers, response, gateWrites, keyCheck, rateLimit>>

\* validateWorkinkToken(token, userIp) is called and the API answers resp
VerifyToken(resp, userIp) ==
  LET result == validateWorkinkToken(resp, userIp, now) IN
  /\ verdict' = [made |-> TRUE, resp |-> resp, userIp |-> userIp,
                 valid |-> result.valid, error |-> result.error]
  /\ VerifyFrame /\ UNCHANGED now

VerifyAdvance(t) ==
  /\ t > now
  /\ now' = t
  /\ verdict' = NoResult
  /\ VerifyFrame

InitVerify ==
  /\ now \in {0, 1000}
  /\ cfg \in TokenConfigs
  /\ keyFile = NoFile
  /\ encryptions = 0
  /\ proc = "idle"
  /\ server = "none"
  /\ session = NoSession
  /\ validationAttempts = [i \in Identities |-> <<>>]
  /\ pending = EmptyBag
  /\ promise = "none"
  /\ timers = {}
  /\ response = NoResponse
  /\ gateWrites = NoWrites
  /\ keyCheck = NoCheck
  /\ rateLimit = NoRateLimit
  /\ verdict = NoResult

NextVerify ==
  \/ \E resp \in VerifyResponses(now), ip \in Identities : VerifyToken(resp, ip)
  \/ \E t \in VerifyInstants : VerifyAdvance(t)

SpecVerify == InitVerify /\ [][NextVerify]_vars

\* C19: for a fixed API response, the result of validateWorkinkToken (valid flag and
\* error) is the same for every caller IP, whether or not it equals info.byIp.
C19_IpMismatchNeverRejects ==
  verdict.made =>
    \A ip \in Identities :
      /\ validateWorkinkToken(verdict.resp, ip, now).valid = verdict.valid
      /\ validateWorkinkToken(verdict.resp, ip, now).error = verdict.error

\* a token was accepted for a caller whose IP is not the one the token was made by
C19_Witness ==
  /\ verdict.made /\ verdict.valid
  /\ verdict.resp.byIp # "" /\ verdict.resp.byIp # verdict.userIp

\* the body lacks a field that the verification of a token marked valid reads
LacksExpectedFields(resp) ==
  resp.valid = "true" /\ (~resp.hasInfo \/ ~resp.expiresAfter.given)

\* C20: a transport error yields "API error"; a response that is not JSON or lacks
\* the expected fields yields "Validation error"; valid false yields "Invalid token";
\* valid true with now > info.expiresAfter yields "Token expired"; valid:true is
\* returned only when the provider marks the token valid and now <= info.expiresAfter.
C20_VerifierOutcomes ==
  verdict.made =>
    LET resp == verdict.resp IN
    /\ resp.transport = "error" => (~verdict.valid /\ verdict.error = "API error")
    /\ (resp.transport = "ok" /\ (~resp.json \/ LacksExpectedFields(resp))) =>
         (~verdict.valid /\ verdict.error = "Validation error")
    /\ (resp.transport = "ok" /\ resp.json /\ resp.valid = "false") =>
         (~verdict.valid /\ verdict.error = "Invalid token")
    /\ (/\ resp.transport = "ok" /\ resp.json /\ resp.valid = "true"
        /\ resp.hasInfo /\ resp.expiresAfter.given /\ now > resp.expiresAfter.v) =>
         (~verdict.valid /\ verdict.error = "Token expired")
    /\ verdict.valid =>
         (/\ resp.valid = "true" /\ resp.hasInfo
          /\ resp.expiresAfter.given /\ now <= resp.expiresAfter.v)

----------------------------------------------------------------------------
(* Request handling of the token gate, checked under Spec *)

\* the errors with which validateWorkinkToken resolves
VerifierErrors == {"API error", "Validation error", "Invalid token", "Token expired"}

\* C21: when the verifier returns valid:false for a /validate request, the handler
\* answers 400 with the error, leaves the credential file, the ledger of the caller
\* and the timers as they are and keeps the server listening; and the same caller,
\* unless a success of its identity was recorded within the window, is handed to the
\* verifier again when it repeats the request.
C21_FailedVerificationRetryable ==
  [][\A req \in BagToSet(pending), resp \in ApiResponses(now) :
       (CompleteValidate(req, resp) /\ ~validateWorkinkToken(resp, req.ip, now).valid) =>
          /\ response' = Response(400, validateWorkinkToken(resp, req.ip, now).error, 0)
          /\ keyFile' = keyFile
          /\ validationAttempts' = validationAttempts
          /\ timers' = timers
          /\ Accepting => (proc' = "up" /\ server' = "listening")
          /\ (/\ Accepting
              /\ \A t \in Stamps(validationAttempts[req.ip]) : now - t >= ratelimitMs) =>
               /\ BagCardinality(pending') < MaxPending
               /\ validateDecision(TRUE,
                                   checkIPRateLimit(validationAttempts', req.ip, now).allowed,
                                   now - session'.startTime) = "verify"]_vars

\* a /validate was just answered with the verifier's error, no credential was written
\* and the server listens
C21_Witness ==
  /\ response.status = 400 /\ response.body \in VerifierErrors
  /\ Accepting
  /\ keyFile = NoFile /\ timers = {}
  /\ \A ip \in Identities : validationAttempts[ip] = <<>>

\* the ids that GET /link may carry, and the ids in the session table: the table is
\* filled once, with the session created by adwall(), and never changed
LinkSids == {"", "session", "unknown"}
SessionIds == IF server # "none" THEN {"session"} ELSE {}

\* C22: a GET /link whose sid is missing or not the id of a session in the table is
\* answered 400 "Invalid session" with no redirect; one whose sid is a known session
\* id is answered 302 to the task provider; neither changes the session table, the
\* ledger or the credential file.
C22_LinkOnlyKnownSessions ==
  [][\A sid \in LinkSids :
       HandleLink(sid) =>
         /\ (sid = "" \/ sid \notin SessionIds) => response' = Response(400, "Invalid session", 0)
         /\ (sid # "" /\ sid \in SessionIds) =>
               response' = Response(302, "redirect to work.ink", 0)
         /\ UNCHANGED <<session, validationAttempts, keyFile, pending, timers>>]_vars

\* GET /link with an id that is no session's was just refused, after a credential
\* was written
C22_Witness ==
  /\ response = Response(400, "Invalid session", 0)
  /\ Accepting
  /\ existsSync(keyFile)

\* C23: the checks of /validate run in the order referrer, minimum dwell, rate
\* limit, verification, and a request is answered with the rejection of the earliest
\* check it fails: a foreign or missing Referer is refused (403) whatever else holds,
\* a premature request is answered as premature also when its identity is rate
\* limited, and neither consults or changes the rate-limit ledger; only a request
\* that passes all three is handed to the verifier.
C23_CheckOrder ==
  [][\A xff \in {"", "ipB"}, referer \in {"", "match", "other"} :
       HandleValidate(TRUE, xff, referer) =>
         LET rl == checkIPRateLimit(validationAttempts, userIpOf(xff, "ipA"), now)
             elapsed == now - session.startTime
         IN  IF referer # "match"
               THEN /\ response'.status = 403
                    /\ validationAttempts' = validationAttempts /\ pending' = pending
             ELSE IF elapsed < minimumDelay
               THEN /\ response'.status = 400 /\ response'.info = minimumDelay - elapsed
                    /\ proc' = "up"
                    /\ validationAttempts' = validationAttempts /\ pending' = pending
             ELSE IF ~rl.allowed
               THEN response'.status = 429 /\ pending' = pending
             ELSE pending' # pending]_vars

\* C24: while the token verification of a /validate request is pending, a /init and
\* a /link request arriving at the server are handled to completion and answered,
\* and the pending verification stays pending.
C24_NonBlockingVerification ==
  (Accepting /\ pending # EmptyBag) =>
    /\ ENABLED (HandleInit /\ response'.status = 302 /\ pending' = pending)
    /\ \A sid \in LinkSids :
         ENABLED (HandleLink(sid) /\ response'.status \in {302, 400} /\ pending' = pending)

\* /init was just answered while two verifications were pending
C24_Witness ==
  /\ response = Response(302, "redirect to adwall", 0)
  /\ BagCardinality(pending) = MaxPending

\* C25: no request reaching the local server ends in an uncaught exception: in every
\* reachable state the process that called adwall() has not been aborted by the
\* handling of a request.
C25_NoRequestAbortsProcess == proc # "crashed"

----------------------------------------------------------------------------
(* Background revalidation over every kind of key file: SpecReval *)

\* up to the second run of the timer; a credential is expired one window after it
\* was issued (KeyConfigs), or at once
RevalInstants ==
  {0, revalidationInterval, revalidationInterval + ratelimitMs,
   revalidationInterval + ratelimitMs + 1, 2 * revalidationInterval}

\* A credential of an earlier run is in place when the application starts; adwall()
\* takes the fast path over it and starts the timer.
InitReval ==
  /\ now = 0
  /\ cfg \in KeyConfigs
  /\ keyFile = writtenKey(0, TokenMaxAge, 0)
  /\ encryptions = 0
  /\ proc = "idle"
  /\ server = "none"
  /\ session = NoSession
  /\ validationAttempts = [i \in Identities |-> <<>>]
  /\ pending = EmptyBag
  /\ promise = "none"
  /\ timers = {}
  /\ response = NoResponse
  /\ gateWrites = NoWrites
  /\ keyCheck = NoCheck
  /\ rateLimit = NoRateLimit
  /\ verdict = NoResult

NextReval ==
  \/ CallAdwall
  \/ \E p \in KeyPayloads(now), m \in Machines : PlantKey(p, m)
  \/ \E field \in ByteFields : FlipByte(field)
  \/ \E f \in {Unreadable, Garbage, OtherJson} : DamageKey(f)
  \/ DeleteKey
  \/ \E t \in RevalInstants : KeyAdvance(t)
  \/ \E due \in timers, unlinkOk \in BOOLEAN : RevalidationTick(due, unlinkOk)

SpecReval == InitReval /\ [][NextReval]_vars

\* C26: at each tick of the revalidation timer, with a deletion that works, a key
\* file that exists and for which hasValidKey would return false is deleted, and one
\* for which hasValidKey would return true is left unchanged.
C26_RemovesExactlyInvalid ==
  [][\A due \in timers :
       RevalidationTick(due, TRUE) =>
         LET good == hasValidKey(keyFile, TokenMaxAge, now, ThisMachine).value
         IN  /\ (existsSync(keyFile) /\ ~good) => keyFile' = NoFile
             /\ good => keyFile' = keyFile]_vars

----------------------------------------------------------------------------
(* The timer between the requests of the gate: SpecTick *)

\* the end of the minimum delay, and the first run of a timer started then
TickInstants == {minimumDelay, minimumDelay + revalidationInterval}

\* The gate of Spec, with requests that carry a token, and a key file that is damaged
\* or removed from outside at any time.
NextTick ==
  \/ \E t \in TickInstants : Advance(t)
  \/ CallAdwall
  \/ Listen
  \/ \E xff \in {"", "ipB"} : HandleValidate(TRUE, xff, "match")
  \/ \E req \in BagToSet(pending), resp \in ApiResponses(now) : CompleteValidate(req, resp)
  \/ \E f \in {Unreadable, Garbage} : DamageKey(f)
  \/ FlipByte("tag")
  \/ RemoveKey
  \/ \E due \in timers, unlinkOk \in BOOLEAN : RevalidationTick(due, unlinkOk)

SpecTick == Init /\ [][NextTick]_vars

\* the branch that a /validate with a token from identity ip would take
DecisionFor(ledger, sess, ip, t) ==
  validateDecision(TRUE, checkIPRateLimit(ledger, ip, t).allowed, t - sess.startTime)

\* C27: every tick of the revalidation timer returns normally, whatever the key file
\* is (absent, unreadable, malformed, tampered, expired, valid) and whether or not the
\* deletion works; it leaves the server, the session, the ledger, the verifications
\* in flight and the promise as they are, so that every /validate takes the branch
\* it would have taken without the tick.
C27_TickNeverThrows ==
  [][\A due \in timers, unlinkOk \in BOOLEAN :
       RevalidationTick(due, unlinkOk) =>
         /\ ~revalidate(keyFile, TokenMaxAge, now, unlinkOk).threw
         /\ proc' = "up"
         /\ UNCHANGED <<server, session, validationAttempts, pending, promise, gateWrites>>
         /\ \A ip \in Identities :
              DecisionFor(validationAttempts', session', ip, now')
                = DecisionFor(validationAttempts, session, ip, now)]_vars

\* the timer started by the one successful /validate, at the end of the minimum
\* delay, has run once; the key file in place is not a valid credential, the server
\* listens and a verification is in flight
C27_Witness ==
  /\ gateWrites.n = 1
  /\ \E ip \in Identities : validationAttempts[ip] = <<minimumDelay>>
  /\ timers = {minimumDelay + 2 * revalidationInterval}
  /\ existsSync(keyFile)
  /\ ~hasValidKey(keyFile, TokenMaxAge, now, ThisMachine).value
  /\ Accepting
  /\ pending # EmptyBag

----------------------------------------------------------------------------
(* What the gate puts on disk, checked under Spec *)

\* C28: in every reachable state the key file, if the gate wrote it, is the JSON of
\* an encrypt() result {iv, tag, data} made on this machine, whose plaintext is a
\* credential {valid: true, at}; the gate never writes the credential unencrypted.
C28_OnlyCiphertextOnDisk ==
  (gateWrites.n >= 1 /\ existsSync(keyFile)) =>
    /\ keyFile.kind = "blob"
    /\ \E iv \in 0..encryptions :
         keyFile.blob = encrypt(Credential(IssuedAt(keyFile)), ThisMachine, iv)

\* the gate has just written its second credential of this invocation
C28_Witness ==
  /\ response.status = 200
  /\ gateWrites.n = 2
  /\ keyFile.kind = "blob"
  /\ keyFile.blob.iv = encryptions

----------------------------------------------------------------------------
(* Machine binding, checked under SpecKey *)

\* C29: decrypt under fingerprint m2 of encrypt(o) made under m1 returns o when
\* m1 = m2 and throws when the derived keys differ; hence hasValidKey, on this
\* machine, returns false for a key file that was encrypted under a different
\* fingerprint (hostname, platform, arch, username).
C29_MachineBoundRoundTrip ==
  /\ \A m1, m2 \in Machines, o \in KeyPayloads(now) :
       LET r == decrypt(encrypt(o, m1, encryptions), m2)
       IN  /\ m1 = m2 => r = [threw |-> FALSE, val |-> o]
           /\ machineKey(m1) # machineKey(m2) => r.threw
  /\ keyCheck.made =>
       \A m1 \in Machines \ {ThisMachine} :
         (/\ keyFile.kind = "blob"
          /\ keyFile.blob = encrypt(keyFile.blob.data.p, m1, keyFile.blob.iv)) =>
            ~keyCheck.value

----------------------------------------------------------------------------
(* The default key lifetime: SpecAge *)

\* the documented default of maxAge, 2592000000 ms, in seconds
ThirtyDaysInSeconds == 2592000

\* age <= 2592000000 ms
WithinThirtyDays(age) ==
  \/ age \div 1000 < ThirtyDaysInSeconds
  \/ (age \div 1000 = ThirtyDaysInSeconds /\ age % 1000 = 0)

\* the boundary of the default lifetime of the code
AgeInstants == {0, 1, TokenDefaultMaxAge, TokenDefaultMaxAge + 1}

\* The application is started again and again over the credential an earlier run
\* left, with maxAge omitted.
InitAge ==
  /\ now \in {0, 1}
  /\ cfg = TokenConfig(Given(15000), LeftOut)
  /\ keyFile \in {NoFile, writtenKey(0, TokenDefaultMaxAge, 0)}
  /\ encryptions = 0
  /\ proc = "idle"
  /\ server = "none"
  /\ session = NoSession
  /\ validationAttempts = [i \in Identities |-> <<>>]
  /\ pending = EmptyBag
  /\ promise = "none"
  /\ timers = {}
  /\ response = NoResponse
  /\ gateWrites = NoWrites
  /\ keyCheck = NoCheck
  /\ rateLimit = NoRateLimit
  /\ verdict = NoResult

NextAge ==
  \/ \E t \in AgeInstants : KeyAdvance(t)
  \/ StoreKey
  \/ DeleteKey
  \/ CheckKey
  \/ CallAdwall
  \/ Exit

SpecAge == InitAge /\ [][NextAge]_vars

\* C31: when config.maxAge is omitted, adwall accepts on the fast path every intact
\* credential issued at most 2592000000 ms earlier, and rejects it only when it is
\* older than that.
C31_DefaultLifetimeThirtyDays ==
  [][(/\ CallAdwall
      /\ ~cfg.maxAge.given
      /\ Authentic(keyFile)
      /\ keyFile.blob.data.p = Credential(IssuedAt(keyFile))
      /\ now >= IssuedAt(keyFile)) =>
        ((promise' = "valid" /\ server' = "none")
           <=> WithinThirtyDays(now - IssuedAt(keyFile)))]_vars

----------------------------------------------------------------------------
(* Properties of the code-based gate, checked under SpecCode *)

CodeReferers == {"", "match", "other", "malformed"}
CodeValues == {"", "expected", "wrong"}

\* C32: the code-based gate writes the credential file only while handling a request
\* to '/' whose Referer origin is that of adwallUrl, with
\* minDelay <= now - startTime <= sessionTimeout, and whose v is the expected code; a
\* request with v missing or different never writes it.
C32_CodeWriteOnlyOnAcceptedFinal ==
  [][/\ (keyFile' # keyFile /\ existsSync(keyFile')) =>
          \E referer \in CodeReferers, v \in CodeValues : CodeHandleFinal(referer, v)
     /\ \A referer \in CodeReferers, v \in CodeValues :
          (/\ CodeHandleFinal(referer, v)
           /\ ~(/\ referer = "match"
                /\ now - session.startTime <= CodeSessionTimeout
                /\ now - session.startTime >= CodeMinDelay
                /\ v = "expected")) =>
             keyFile' = keyFile]_vars

\* the final request was just accepted at the last instant of the session
C32_Witness ==
  /\ response = Response(200, "valid: true", 0)
  /\ now - session.startTime = CodeSessionTimeout
  /\ keyFile = BlobFile(encrypt(Credential(now), ThisMachine, encryptions))

C34_PrematureKeepsSessionOpen ==
  /\ [][\A v \in CodeValues :
          (/\ CodeHandleFinal("match", v)
           /\ now - session.startTime < CodeMinDelay
           /\ now - session.startTime <= CodeSessionTimeout) =>
             /\ response' =
                  Response(429, "minimum_delay_not_met",
                           CodeMinDelay - (now - session.startTime))
             /\ server' = "listening"
             /\ UNCHANGED <<now, cfg, keyFile, encryptions, proc, server, session,
                            validationAttempts, pending, promise, timers, gateWrites>>]_vars
  /\ [](/\ Accepting
        /\ now - session.startTime >= CodeMinDelay
        /\ now - session.startTime <= CodeSessionTimeout
        /\ encryptions < MaxWrites
        => ENABLED (/\ CodeHandleFinal("match", "expected")
                    /\ response' = Response(200, "valid: true", 0)
                    /\ keyFile' = writtenKey(now, CodeMaxAge, encryptions + 1)))

\* a premature request was just refused with one millisecond of the delay left, and
\* the server still listens
C34_Witness ==
  /\ response = Response(429, "minimum_delay_not_met", 1)
  /\ Accepting
  /\ keyFile = NoFile
  /\ now - session.startTime = CodeMinDelay - 1

\* C35: in the code-based gate, after a request to '/' whose v is not the expected
\* code, with matching Referer and minDelay <= now - startTime <= sessionTimeout, the
\* server keeps listening, and a request with the expected code handled next, still
\* inside the session, is accepted and writes the credential.
C35_FailedCodeRecoverable ==
  /\ [][\A v \in {"", "wrong"} :
          (/\ CodeHandleFinal("match", v)
           /\ now - session.startTime >= CodeMinDelay
           /\ now - session.startTime <= CodeSessionTimeout) =>
             server' = "listening"]_vars
  /\ [](/\ response = Response(200, "valid: false", 0)
        /\ proc = "up"
        /\ encryptions < MaxWrites
        => ENABLED (/\ CodeHandleFinal("match", "expected")
                    /\ keyFile' = writtenKey(now, CodeMaxAge, encryptions + 1)))

----------------------------------------------------------------------------
(* The redirect gate: adwall({ adwall, adlink, keyFile, port }) of
   src/client/adwall.js, lines 565-656 *)

\* Date.now() - initAt < 10_000, line 602
RedirectInitDelay == 10000
\* setTimeout(() => server.close(), 12_000), line 633
SuccessCloseDelay == 12000

\* let initAt = null (line 585): the one datum of an invocation, kept in the session
\* record; LeftOut is null
initAt == session.minTime

\* fetchWorkink(token), lines 552-563: null on a transport error or a body that is no
\* JSON, the parsed body otherwise
fetchWorkink(resp) ==
  IF resp.transport = "error" \/ ~resp.json
    THEN [isNull |-> TRUE, valid |-> "absent"]
    ELSE [isNull |-> FALSE, valid |-> resp.valid]

RedirectApiResponses ==
  { ApiResponse("error", FALSE, "absent", FALSE, LeftOut, ""),
    ApiResponse("ok", FALSE, "absent", FALSE, LeftOut, ""),
    ApiResponse("ok", TRUE, "absent", FALSE, LeftOut, ""),
    ApiResponse("ok", TRUE, "false", FALSE, LeftOut, ""),
    ApiResponse("ok", TRUE, "true", FALSE, LeftOut, "") }

\* the test of line 602 without `!initAt`:
redirectAdmitsNoInit(at, t, hasToken) ==
  /\ at.given => t - at.v >= RedirectInitDelay
  /\ hasToken

\* if (!initAt || Date.now() - initAt < 10_000 || !token) redirect to /error; a number
\* is falsy when it is 0, a token when it is missing or empty
redirectAdmits(at, t, hasToken) ==
  /\ at.given /\ at.v # 0
  /\ t - at.v >= RedirectInitDelay
  /\ hasToken

\* lines 570-583 and 585-655.  With a key file that reads and decrypts, the call
\* returns { url: null, promise } where promise is the async function's: it throws on
\* data.token when the payload is null, and otherwise waits for fetchWorkink.  With no
\* such file, the server is created, server.listen(port) is called and
\* { url: adwall, promise: validatedPromise } is returned.
RedirectCallAdwall ==
  LET d == readAndDecrypt(keyFile, ThisMachine) IN
  /\ proc = "idle"
  /\ proc' = "up"
  /\ response' = NoResponse
  /\ UNCHANGED <<direct, keyCheck, now, cfg, keyFile, encryptions, validationAttempts,
                 pending, timers, gateWrites>>
  /\ IF existsSync(keyFile) /\ ~d.threw
       THEN /\ promise' = IF d.val.isObj THEN "checking" ELSE "rejected"
            /\ UNCHANGED <<server, session>>
       ELSE /\ session' = [NoSession EXCEPT !.minTime = LeftOut]
            /\ server' = "binding"
            /\ promise' = "pending"

\* the port is bound
RedirectListen ==
  /\ proc = "up"
  /\ server = "binding"
  /\ server' = "listening"
  /\ response' = NoResponse
  /\ UNCHANGED <<direct, keyCheck, now, cfg, keyFile, encryptions, proc, session,
                 validationAttempts, pending, promise, timers, gateWrites>>

\* lines 574-577: const info = await fetchWorkink(data.token);
\* if (info && info.valid) return { valid: true, token }  -- and nothing otherwise
RedirectCompleteStored(resp) ==
  LET info == fetchWorkink(resp) IN
  /\ proc = "up"
  /\ promise = "checking"
  /\ promise' = IF ~info.isNull /\ info.valid = "true" THEN "valid" ELSE "undefined"
  /\ response' = NoResponse
  /\ UNCHANGED <<direct, keyCheck, now, cfg, keyFile, encryptions, proc, server, session,
                 validationAttempts, pending, timers, gateWrites>>

\* GET /init, lines 590-594
RedirectHandleInit ==
  /\ Accepting
  /\ session' = [session EXCEPT !.minTime = Given(now)]
  /\ response' = Response(302, "redirect to adlink", 0)
  /\ UNCHANGED <<direct, keyCheck, now, cfg, keyFile, encryptions, proc, server,
                 validationAttempts, pending, promise, timers, gateWrites>>

\* GET /validate up to the await, lines 596-605.  A request passed on to fetchWorkink
\* is remembered with the instant it was handled at and the initAt it was tested with.
RedirectHandleValidate(hasToken) ==
  /\ Accepting
  /\ redirectAdmits(initAt, now, hasToken) => BagCardinality(pending) < MaxPending
  /\ UNCHANGED <<direct, keyCheck, now, cfg, keyFile, encryptions, proc, server, session,
                 validationAttempts, promise, timers, gateWrites>>
  /\ IF redirectAdmits(initAt, now, hasToken)
       THEN /\ pending' = pending (+) SetToBag({[handledAt |-> now, initAt |-> initAt]})
            /\ response' = NoResponse
       ELSE /\ response' = Response(302, "/error", 0)
            /\ UNCHANGED pending

\* the rest of /validate, lines 606-622
RedirectCompleteValidate(req, resp) ==
  LET info == fetchWorkink(resp) IN
  /\ proc = "up"
  /\ BagIn(req, pending)
  /\ pending' = pending (-) SetToBag({req})
  /\ UNCHANGED <<direct, keyCheck, now, cfg, proc, server, session, validationAttempts,
                 timers, gateWrites>>
  /\ IF info.isNull \/ info.valid # "true"
       THEN /\ response' = Response(302, "/error", 0)
            /\ UNCHANGED <<keyFile, encryptions, promise>>
       ELSE /\ encryptions < MaxWrites
            /\ encryptions' = encryptions + 1
            /\ keyFile' = writtenKey(now, 0, encryptions + 1)
            /\ response' = Response(302, "/success", 0)
            /\ promise' = resolve(promise, "valid")

\* GET /success, lines 625-637: the page, and a timer that closes the server
RedirectHandleSuccess ==
  /\ Accepting
  /\ response' = Response(200, "success page", 0)
  /\ timers' = timers \cup {now + SuccessCloseDelay}
  /\ UNCHANGED <<direct, keyCheck, now, cfg, keyFile, encryptions, proc, server, session,
                 validationAttempts, pending, promise, gateWrites>>

\* the timer of line 633 runs
RedirectCloseTimer(due) ==
  /\ proc = "up"
  /\ due \in timers
  /\ now >= due
  /\ timers' = timers \ {due}
  /\ server' = "closed"
  /\ response' = NoResponse
  /\ UNCHANGED <<direct, keyCheck, now, cfg, keyFile, encryptions, proc, session,
                 validationAttempts, pending, promise, gateWrites>>

\* GET /error, lines 639-647
RedirectHandleError ==
  /\ Accepting
  /\ response' = Response(200, "error page", 0)
  /\ UNCHANGED <<direct, keyCheck, now, cfg, keyFile, encryptions, proc, server, session,
                 validationAttempts, pending, promise, timers, gateWrites>>

\* any other path, lines 649-650
RedirectHandleOther ==
  /\ Accepting
  /\ response' = Response(404, "Not found", 0)
  /\ UNCHANGED <<direct, keyCheck, now, cfg, keyFile, encryptions, proc, server, session,
                 validationAttempts, pending, promise, timers, gateWrites>>

\* The wait after /init and its last millisecond, for an /init at 1 and for one at
\* RedirectInitDelay; the close of the server after a /success at the end of the wait.
RedirectInstants ==
  {1, RedirectInitDelay, RedirectInitDelay + 1, 2 * RedirectInitDelay,
   RedirectInitDelay + 1 + SuccessCloseDelay}

\* Date.now() is positive.  The key file: none; no JSON; a credential of this machine;
\* one of another machine.
InitRedirect ==
  /\ now = 1
  /\ cfg = TokenConfig(LeftOut, LeftOut)
  /\ keyFile \in {NoFile, Garbage, writtenKey(0, 0, 0),
                  BlobFile(encrypt(Credential(0), OtherMachine, 0))}
  /\ encryptions = 0
  /\ proc = "idle"
  /\ server = "none"
  /\ session = NoSession
  /\ validationAttempts = [i \in Identities |-> <<>>]
  /\ pending = EmptyBag
  /\ promise = "none"
  /\ timers = {}
  /\ response = NoResponse
  /\ gateWrites = NoWrites
  /\ keyCheck = NoCheck
  /\ rateLimit = NoRateLimit
  /\ verdict = NoResult

NextRedirect ==
  \/ \E t \in RedirectInstants : Advance(t)
  \/ RedirectCallAdwall
  \/ RedirectListen
  \/ \E resp \in RedirectApiResponses : RedirectCompleteStored(resp)
  \/ RedirectHandleInit
  \/ \E hasToken \in BOOLEAN : RedirectHandleValidate(hasToken)
  \/ \E req \in BagToSet(pending), resp \in RedirectApiResponses :
        RedirectCompleteValidate(req, resp)
  \/ RedirectHandleSuccess
  \/ \E due \in timers : RedirectCloseTimer(due)
  \/ RedirectHandleError
  \/ RedirectHandleOther
  \/ RemoveKey
  \/ Exit

SpecRedirect == InitRedirect /\ [][NextRedirect]_vars

\* C36: in the redirect gate, a call whose stored credential does not lead to a
\* {valid: true} result has started the local server (and returned the gate URL): a
\* running application whose promise settled otherwise than with valid: true is never
\* without a server.
C36_GateAlwaysOffered ==
  (proc = "up" /\ promise \in {"undefined", "rejected"}) => server # "none"

\* C37: in the redirect gate a credential is written only when a /validate request
\* that was passed on to the provider completes, and a request is passed on only if
\* an /init was handled before it, the latest one at least 10000 ms earlier, and it
\* carries a token; every /init sets the wait anew; any other /validate is redirected
\* to /error and changes nothing.
C37_InitBeforeValidate ==
  /\ [][/\ (keyFile' # keyFile /\ existsSync(keyFile')) =>
             \E req \in BagToSet(pending), resp \in RedirectApiResponses :
                RedirectCompleteValidate(req, resp)
        /\ RedirectHandleInit => initAt' = Given(now)
        /\ \A hasToken \in BOOLEAN :
             (/\ RedirectHandleValidate(hasToken)
              /\ ~(/\ initAt.given
                   /\ now - initAt.v >= RedirectInitDelay
                   /\ hasToken)) =>
                /\ response' = Response(302, "/error", 0)
                /\ UNCHANGED <<now, cfg, keyFile, encryptions, proc, server, session,
                               validationAttempts, pending, promise, timers,
                               gateWrites>>]_vars
  /\ [](\A req \in BagToSet(pending) :
          /\ req.initAt.given
          /\ req.handledAt - req.initAt.v >= RedirectInitDelay)

\* a credential was just written for a request handled exactly 10000 ms after an
\* /init that was itself handled at 10000
C37_Witness ==
  /\ response = Response(302, "/success", 0)
  /\ initAt = Given(RedirectInitDelay)
  /\ now = 2 * RedirectInitDelay
  /\ keyFile = writtenKey(now, 0, encryptions)
  /\ promise = "valid"

----------------------------------------------------------------------------
(* The adwall page: src/unnamed/part_003 (lines 1-129) and src/www/js/web.adwall.js *)

MINIMUM_VALIDATION_TIME == 20000
MAX_KEYS_PER_HOUR == 1
\* 60 * 60 * 1000, part_003 lines 13, 24 and 41
PageHourMs == 3600000
RATE_WINDOW_MS == 20000
\* params.get('t') || 15000
PageDefaultTime == 15000

RECURSIVE SeqMax(_)
SeqMax(s) == IF Len(s) = 1 THEN s[1]
             ELSE LET m == SeqMax(Tail(s)) IN IF s[1] > m THEN s[1] ELSE m

\* checkRateLimit() at time t over the stored timestamps; window is 60 * 60 * 1000 in
\* part_003 and RATE_WINDOW_MS in web.adwall.js.  nextRetryTime 0 stands for null.
checkRateLimit(stored, t, window) ==
  LET recent == SelectSeq(stored, LAMBDA ts : ts > t - window) IN
  IF Len(recent) >= MAX_KEYS_PER_HOUR
    THEN [allowed |-> FALSE, nextRetryTime |-> SeqMax(recent) + window]
    ELSE [allowed |-> TRUE, nextRetryTime |-> 0]

\* recordKeyValidation() at time t: what it stores
recordKeyValidation(stored, t, window) ==
  Append(SelectSeq(stored, LAMBDA ts : ts > t - window), t)

\* The page runs in one browser; its localStorage item adwall_key_timestamps is the
\* entry of that browser in validationAttempts.
Browser == "ipA"
timestamps == validationAttempts[Browser]

\* What the tab holds: the start of the countdown and its length, whether a start time
\* is in sessionStorage and a sid in localStorage (web.adwall.js only).
NoTab == [startTime |-> 0, minTime |-> LeftOut, started |-> FALSE, sid |-> FALSE]

PageConfig(variant, window) ==
  [variant |-> variant, window |-> window, time |-> LeftOut, maxAge |-> LeftOut]

PageConfigs == {PageConfig("part_003", PageHourMs), PageConfig("web", RATE_WINDOW_MS)}

\* minTime = Math.max(parseInt(params.get('t') || 15000), MINIMUM_VALIDATION_TIME)
pageMinTime(tParam) ==
  IF OrDefault(tParam, PageDefaultTime) > MINIMUM_VALIDATION_TIME
    THEN OrDefault(tParam, PageDefaultTime) ELSE MINIMUM_VALIDATION_TIME

PageFrame ==
  UNCHANGED <<direct, keyCheck, cfg, keyFile, encryptions, proc, server, pending, promise,
              timers, gateWrites>>

\* The page is loaded.  query: "token" (?token=...), "sid" (?sid=...), "" (neither).
\* part_003 74-129, web.adwall.js 117-191: with a token the rate limit is checked and
\* the browser is sent on to the local /validate, or the Ratelimited message is
\* shown; without token and sid it is sent to /init; with a sid the countdown starts
\* (web.adwall.js: the sid is also taken from localStorage, the start time from
\* sessionStorage when it is there).
PageLoad(query, tParam) ==
  LET rc == checkRateLimit(timestamps, now, cfg.window)
      sidKnown == query = "sid" \/ (cfg.variant = "web" /\ session.sid)
      keepStart == cfg.variant = "web" /\ session.started
  IN
  /\ PageFrame
  /\ UNCHANGED <<now, validationAttempts>>
  /\ IF query = "token"
       THEN /\ response' = IF rc.allowed THEN Response(302, "/validate?token", 0)
                           ELSE Response(200, "Ratelimited", rc.nextRetryTime)
            /\ UNCHANGED session
     ELSE IF ~sidKnown
       THEN /\ response' = Response(302, "/init", 0)
            /\ UNCHANGED session
     ELSE /\ response' = Response(200, "Adwall", 0)
          /\ session' = [startTime |-> IF keepStart THEN session.startTime ELSE now,
                         minTime |-> Given(pageMinTime(tParam)),
                         started |-> cfg.variant = "web",
                         sid |-> cfg.variant = "web"]

\* btn.onclick, part_003 125-129, web.adwall.js 184-190: the button is enabled once
\* minTime has passed since startTime; the click records a key validation and sends
\* the browser to the local /link.
PageContinue ==
  /\ response = Response(200, "Adwall", 0)
  /\ now - session.startTime >= session.minTime.v
  /\ Len(timestamps) < MaxWrites
  /\ validationAttempts' =
       [validationAttempts EXCEPT
          ![Browser] = recordKeyValidation(timestamps, now, cfg.window)]
  /\ response' = Response(302, "/link", 0)
  /\ PageFrame
  /\ UNCHANGED <<now, session>>

\* Time passes; the page stays as it is.
PageAdvance(t) ==
  /\ t > now
  /\ now' = t
  /\ PageFrame
  /\ UNCHANGED <<validationAttempts, session, response>>

\* The end of the countdown, and around the end of the rate window that starts there.
PageInstants ==
  {0, MINIMUM_VALIDATION_TIME, MINIMUM_VALIDATION_TIME + 1,
   MINIMUM_VALIDATION_TIME + cfg.window - 1, MINIMUM_VALIDATION_TIME + cfg.window,
   2 * MINIMUM_VALIDATION_TIME + cfg.window}

\* an empty rate-limit store, no tab
InitPage ==
  /\ now = 0
  /\ cfg \in PageConfigs
  /\ keyFile = NoFile
  /\ encryptions = 0
  /\ proc = "idle"
  /\ server = "none"
  /\ session = NoTab
  /\ validationAttempts = [i \in Identities |-> <<>>]
  /\ pending = EmptyBag
  /\ promise = "none"
  /\ timers = {}
  /\ response = NoResponse
  /\ gateWrites = NoWrites
  /\ keyCheck = NoCheck
  /\ rateLimit = NoRateLimit
  /\ verdict = NoResult

NextPage ==
  \/ \E t \in PageInstants : PageAdvance(t)
  \/ \E query \in {"token", "sid", ""}, tParam \in {LeftOut, Given(30000)} :
        PageLoad(query, tParam)
  \/ PageContinue

SpecPage == InitPage /\ [][NextPage]_vars

\* C38: when the page is loaded with a token and the rate-limit store holds nothing
\* but the record of the user's one click on Continue (the store was empty before
\* it), the page forwards the token to the local /validate, whatever time passed
\* since the click.
C38_FirstAttemptNotRateLimited ==
  [][\A tParam \in {LeftOut, Given(30000)} :
       (PageLoad("token", tParam) /\ Len(timestamps) <= 1) =>
          response' = Response(302, "/validate?token", 0)]_vars

----------------------------------------------------------------------------
(* The identity of the rate limit, checked under Spec *)

\* the address the requests of the model come from (req.connection.remoteAddress)
RemoteAddress == "ipA"

\* C39: the rate limit of a /validate request is that of its remote address, whatever
\* headers it carries: a request whose remote address has no allowance left is not
\* passed on to the verifier, and no ledger entry other than that of the remote
\* address is ever written.
C39_RateLimitByPeerAlone ==
  [][/\ \A xff \in {"", "ipB"}, referer \in {"", "match", "other"} :
          (/\ HandleValidate(TRUE, xff, referer)
           /\ ~checkIPRateLimit(validationAttempts, RemoteAddress, now).allowed) =>
             BagCardinality(pending') <= BagCardinality(pending)
     /\ \A i \in Identities \ {RemoteAddress} :
          validationAttempts'[i] = validationAttempts[i]]_vars

====
